---- MODULE Spec2Model ----
(***************************************************************************)
(* Model of bradfitz/go-runas: package runas (src/runas/runas.go) and the  *)
(* example host program (src/example.go).                                  *)
(*                                                                         *)
(* Process 0 is the host process started by the operator.  Processes       *)
(* 1..MaxChildren are the children that UidGid starts by re-executing the  *)
(* binary (one more slot exists for a process started by a second thread   *)
(* or by a child).  Every process runs the same main: it calls             *)
(* MaybeRunChildServer, and a process that came back from it (the parent)  *)
(* calls User/UidGid and then issues calls on the returned rpc clients.    *)
(* The net/rpc transport is modelled by the two pipes of each process      *)
(* (stdin: requests, stdout: responses) as FIFO queues with closable ends. *)
(***************************************************************************)
EXTENDS Integers, Sequences, FiniteSets, TLC

\* ------------------------------------------------------------------ bounds
MaxChildren == 1      \* children the host may start
MaxCalls == 2         \* client.Call invocations the host makes on handles
MaxExt == 1           \* messages the outside world writes on the host's stdin
MaxCloses == 5        \* Close calls made on one splitReadWrite value

\* --------------------------------------------------------------- constants
\* syscall.Errno value the kernel returns for a refused identity change
EPERM == 1

Host == 0

\* Process slots: the children the host starts and one more, for a process
\* started by a second thread or by a child.
MaxProcs == MaxChildren + 1
Children == 1..MaxProcs
Procs == 0..MaxProcs

\* Threads of control that call into the library: the main thread of each
\* process (named like the process) and a second thread of the host.
SecondThread == MaxProcs + 1
Callers == Procs \cup {SecondThread}
NoHandle == 0         \* the nil *rpc.Client

\* Identities: 0 is root, 1 is an unprivileged identity.
Ids == 0..1

\* Values of the BECOME_GO_RUNAS_CHILD environment variable.
EnvValues == {"", "1", "0"}

DropOp == "InternalGoRunAs.DropPrivileges"
WhoAmIOp == "DemoService.WhoAmI"
UnknownOp == "NoSuch.Method"
SpawnOp == "SpawnService.RunAs"
GarbageOp == "<undecodable>"

NeverCalledMsg == "runas.MaybeRunChildServer() never called"
DropFailedMsg == "runas: failed to drop root to %d/%d: %v"
CantFindMsg == "rpc: can't find service"
TransportMsg == "unexpected EOF"
ShutdownMsg == "connection is shut down"
LookupMsg == "user: unknown user"

\* os/user database consulted by User().
UserNames == {"root", "daemon", "nosuchuser"}

Lookup(username) ==
  CASE username = "root" -> [found |-> TRUE, Uid |-> 0, Gid |-> 0]
    [] username = "daemon" -> [found |-> TRUE, Uid |-> 1, Gid |-> 1]
    [] OTHER -> [found |-> FALSE, Uid |-> 0, Gid |-> 0]

\* --------------------------------------------------------------- data types
\* internalDropResult, zero value
ZeroRes ==
  [UidDropped |-> FALSE, GidDropped |-> FALSE, SetuidErrno |-> 0, SetgidErrno |-> 0]

\* WhoAmIResult, zero value
ZeroWho == [Uid |-> 0, Gid |-> 0]

NoErr == [msg |-> "", Uid |-> 0, Gid |-> 0, res |-> ZeroRes]

Request(op, u, g) == [op |-> op, Uid |-> u, Gid |-> g]

Response(op, err, res, who) == [op |-> op, err |-> err, res |-> res, who |-> who]

NewPipe == [made |-> TRUE, buf |-> <<>>, wclosed |-> FALSE, rclosed |-> FALSE]

NoPipe == [made |-> FALSE, buf |-> <<>>, wclosed |-> FALSE, rclosed |-> FALSE]

\* ------------------------------------------------------------------- kernel
\* setgid(2): a process whose user id is 0 may take any group id, any other
\* process only the one it already has.
Setgid(cred, g) ==
  IF cred.uid = 0 \/ g = cred.gid
    THEN [errno |-> 0, cred |-> [cred EXCEPT !.gid = g]]
    ELSE [errno |-> EPERM, cred |-> cred]

\* setuid(2): likewise for the user id.
Setuid(cred, u) ==
  IF cred.uid = 0 \/ u = cred.uid
    THEN [errno |-> 0, cred |-> [cred EXCEPT !.uid = u]]
    ELSE [errno |-> EPERM, cred |-> cred]

\* ------------------------------------------------------- package runas code
\* MaybeRunChildServer's test of the marker variable (the negation of the
\* early-return condition).
IsChildEnvAnyValue(v) == v # ""

IsChildEnv(v) == v = "1"

\* What becomes of the process when ServeConn has returned: os.Exit(0).
AfterServeReturns == [pc |-> "parent", code |-> -1]

AfterServe == [pc |-> "exited", code |-> 0]

\* UidGid's precondition test.
InitGuardMissing(di) == FALSE

InitGuardPanics(di) == ~di

\* UidGid's test of the drop result.
DropCheckFailsBothOnly(res) == res.UidDropped # TRUE /\ res.GidDropped # TRUE

DropCheckFails(res) == res.UidDropped # TRUE \/ res.GidDropped # TRUE

SysCall(name, arg, errno) == [call |-> name, arg |-> arg, errno |-> errno]

\* Mutants of DropPrivileges: user before group; stop after a refused group
\* change; the user change given the group id.
DropPrivilegesUidFirst(cred, arg) ==
  LET r1 == Setuid(cred, arg.Uid)
      res1 == IF r1.errno # 0
                THEN [ZeroRes EXCEPT !.SetuidErrno = r1.errno]
                ELSE [ZeroRes EXCEPT !.UidDropped = TRUE]
      r2 == Setgid(r1.cred, arg.Gid)
      res2 == IF r2.errno # 0
                THEN [res1 EXCEPT !.SetgidErrno = r2.errno]
                ELSE [res1 EXCEPT !.GidDropped = TRUE]
  IN [res |-> res2, err |-> "", cred |-> r2.cred,
      calls |-> <<SysCall("setuid", arg.Uid, r1.errno), SysCall("setgid", arg.Gid, r2.errno)>>]

DropPrivilegesStopEarly(cred, arg) ==
  LET r1 == Setgid(cred, arg.Gid)
      res1 == IF r1.errno # 0
                THEN [ZeroRes EXCEPT !.SetgidErrno = r1.errno]
                ELSE [ZeroRes EXCEPT !.GidDropped = TRUE]
      r2 == Setuid(r1.cred, arg.Uid)
      res2 == IF r2.errno # 0
                THEN [res1 EXCEPT !.SetuidErrno = r2.errno]
                ELSE [res1 EXCEPT !.UidDropped = TRUE]
  IN IF r1.errno # 0
       THEN [res |-> res1, err |-> "", cred |-> r1.cred,
             calls |-> <<SysCall("setgid", arg.Gid, r1.errno)>>]
       ELSE [res |-> res2, err |-> "", cred |-> r2.cred,
             calls |-> <<SysCall("setgid", arg.Gid, r1.errno), SysCall("setuid", arg.Uid, r2.errno)>>]

DropPrivilegesUidFromGid(cred, arg) ==
  LET r1 == Setgid(cred, arg.Gid)
      res1 == IF r1.errno # 0
                THEN [ZeroRes EXCEPT !.SetgidErrno = r1.errno]
                ELSE [ZeroRes EXCEPT !.GidDropped = TRUE]
      r2 == Setuid(r1.cred, arg.Gid)
      res2 == IF r2.errno # 0
                THEN [res1 EXCEPT !.SetuidErrno = r2.errno]
                ELSE [res1 EXCEPT !.UidDropped = TRUE]
  IN [res |-> res2, err |-> "", cred |-> r2.cred,
      calls |-> <<SysCall("setgid", arg.Gid, r1.errno), SysCall("setuid", arg.Gid, r2.errno)>>]

\* Mutant: a refused identity change is returned as the call's error.
DropPrivilegesErrnoAsError(cred, arg) ==
  LET r1 == Setgid(cred, arg.Gid)
      res1 == IF r1.errno # 0
                THEN [ZeroRes EXCEPT !.SetgidErrno = r1.errno]
                ELSE [ZeroRes EXCEPT !.GidDropped = TRUE]
      r2 == Setuid(r1.cred, arg.Uid)
      res2 == IF r2.errno # 0
                THEN [res1 EXCEPT !.SetuidErrno = r2.errno]
                ELSE [res1 EXCEPT !.UidDropped = TRUE]
  IN [res |-> res2,
      err |-> IF r1.errno # 0 \/ r2.errno # 0 THEN "operation not permitted" ELSE "",
      cred |-> r2.cred,
      calls |-> <<SysCall("setgid", arg.Gid, r1.errno), SysCall("setuid", arg.Uid, r2.errno)>>]

\* internalService.DropPrivileges: the result and the error it returns, the
\* identity the process has afterwards and the identity system calls it made,
\* in order.
DropPrivileges(cred, arg) ==
  LET r1 == Setgid(cred, arg.Gid)
      res1 == IF r1.errno # 0
                THEN [ZeroRes EXCEPT !.SetgidErrno = r1.errno]
                ELSE [ZeroRes EXCEPT !.GidDropped = TRUE]
      r2 == Setuid(r1.cred, arg.Uid)
      res2 == IF r2.errno # 0
                THEN [res1 EXCEPT !.SetuidErrno = r2.errno]
                ELSE [res1 EXCEPT !.UidDropped = TRUE]
  IN [res |-> res2, err |-> "", cred |-> r2.cred,
      calls |-> <<SysCall("setgid", arg.Gid, r1.errno), SysCall("setuid", arg.Uid, r2.errno)>>]

\* DemoService.WhoAmI
WhoAmI(cred) == [Uid |-> cred.uid, Gid |-> cred.gid]

\* ------------------------------------------------------ the rpc.Server table
\* Service names used by the programs modelled here.
ServiceNames == {"InternalGoRunAs", "DemoService", "SpawnService"}

\* The service an operation name "Service.Method" addresses.
ServiceOf(op) ==
  CASE op = DropOp -> "InternalGoRunAs"
    [] op = WhoAmIOp -> "DemoService"
    [] op = SpawnOp -> "SpawnService"
    [] OTHER -> "NoSuch"

\* rpc.NewServer(): no service registered ("" stands for no receiver).
EmptyRegistry == [s \in ServiceNames |-> ""]

AlreadyDefinedMsg == "rpc: service already defined"

\* Mutant of RegisterName: a later registration replaces an earlier one.
RegisterNameOverwrites(reg, name, rcvr) ==
  [reg |-> [reg EXCEPT ![name] = rcvr], err |-> ""]

\* Server.RegisterName(name, rcvr) / Server.Register(rcvr): a name that is
\* already taken is refused with an error and the table is left as it is.
RegisterName(reg, name, rcvr) ==
  IF reg[name] # ""
    THEN [reg |-> reg, err |-> AlreadyDefinedMsg]
    ELSE [reg |-> [reg EXCEPT ![name] = rcvr], err |-> ""]

\* Package initialization: var Server = rpc.NewServer() and init().
PackageInit == RegisterName(EmptyRegistry, "InternalGoRunAs", "internalService").reg

\* The registrations a main makes before it calls MaybeRunChildServer:
\* the example's, one that also tries to take the built-in name, and one that
\* exports a service whose handler calls runas.UidGid.
ExampleMain == <<[name |-> "DemoService", rcvr |-> "DemoService"]>>

CollidingMain ==
  <<[name |-> "InternalGoRunAs", rcvr |-> "Impostor"],
    [name |-> "DemoService", rcvr |-> "DemoService"]>>

SpawnMain ==
  <<[name |-> "DemoService", rcvr |-> "DemoService"],
    [name |-> "SpawnService", rcvr |-> "SpawnService"]>>

\* Server when main reaches its call of MaybeRunChildServer: the table and the
\* error each of main's registrations returned, in order.
RECURSIVE RegisterAll(_, _, _)
RegisterAll(reg, errs, regs) ==
  IF regs = <<>>
    THEN [services |-> reg, errs |-> errs]
    ELSE LET r == RegisterName(reg, Head(regs).name, Head(regs).rcvr)
         IN RegisterAll(r.reg, Append(errs, r.err), Tail(regs))

ServerOf(main) == RegisterAll(PackageInit, <<>>, main)

\* What a receiver that took the built-in name could answer: success, with no
\* identity change made.
ImpostorRes ==
  [UidDropped |-> TRUE, GidDropped |-> TRUE, SetuidErrno |-> 0, SetgidErrno |-> 0]

\* --------------------------------------------------------- process creation
\* A process's surroundings other than the marker variable: its other
\* environment variables and its working directory.
OperatorCtxs ==
  {[others |-> {}, dir |-> "/"],
   [others |-> {"SECRET=hunter2", "LD_PRELOAD=/tmp/x.so"}, dir |-> "/home/op"]}

DefaultCtx == [others |-> {"SECRET=hunter2", "LD_PRELOAD=/tmp/x.so"}, dir |-> "/home/op"]

\* Mutant: the child inherits the parent's environment next to the marker.
CmdEnvInherited(others) == [marker |-> "1", others |-> others]

\* cmd.Env = []string{"BECOME_GO_RUNAS_CHILD=1"}: the value of the marker and
\* the other variables of the child, given the parent's other variables.
CmdEnv(others) == [marker |-> "1", others |-> {}]

\* cmd.Dir = "/": the child's working directory, given the parent's.
CmdDir(dir) == "/"

\* ------------------------------------------------------------ splitReadWrite
\* A stream held by the adapter: whether it exposes Close, whether its Close
\* returns an error, whether it is closed, and how often Close was called.
Stream(closer, fails, closed) ==
  [closer |-> closer, fails |-> fails, closed |-> closed, attempts |-> 0]

\* if c, ok := s.X.(io.Closer); ok { c.Close() }
CloseIfCloser(s) ==
  IF s.closer
    THEN [s EXCEPT !.closed = @ \/ ~s.fails, !.attempts = @ + 1]
    ELSE s

\* Mutants of splitReadWrite.Close: it gives up after a failed reader close;
\* it closes the reader only.
SplitCloseStopsOnError(reader, writer) ==
  IF reader.closer /\ reader.fails
    THEN [reader |-> CloseIfCloser(reader), writer |-> writer,
          order |-> <<"Reader">>, err |-> "close failed"]
    ELSE [reader |-> CloseIfCloser(reader), writer |-> CloseIfCloser(writer),
          order |-> (IF reader.closer THEN <<"Reader">> ELSE <<>>)
                      \o (IF writer.closer THEN <<"Writer">> ELSE <<>>),
          err |-> "nil"]

SplitCloseReaderOnly(reader, writer) ==
  [reader |-> CloseIfCloser(reader), writer |-> writer,
   order |-> IF reader.closer THEN <<"Reader">> ELSE <<>>, err |-> "nil"]

\* splitReadWrite.Close: the two streams afterwards, the Close calls it made
\* in order, and its return value.
SplitClose(reader, writer) ==
  [reader |-> CloseIfCloser(reader), writer |-> CloseIfCloser(writer),
   order |-> (IF reader.closer THEN <<"Reader">> ELSE <<>>)
               \o (IF writer.closer THEN <<"Writer">> ELSE <<>>),
   err |-> "nil"]

\* net/rpc's Client: after Close, or once its connection broke, Call returns
\* ErrShutdown without touching the connection.
ClientRefusesNever(st) == FALSE

ClientRefuses(st) == st # "open"

\* Server.ServeConn's loop: a request whose header was decoded is answered
\* and the loop reads on, whether or not its service exists; a request that
\* cannot be decoded ends the loop.
KeepReadingKnownOnly(op) == op \notin {GarbageOp, UnknownOp}

KeepReading(op) == op # GarbageOp

\* ---------------------------------------------------------------- variables
VARIABLES
  env,        \* env[p]: value of BECOME_GO_RUNAS_CHILD in process p
  ctx,        \* ctx[p]: p's other environment variables and working directory
  registry,   \* registry[p]: Server of p when its main reaches MaybeRunChildServer
  doneInit,   \* doneInit[p]: the package variable doneInit of process p
  pc,         \* pc[p]: unborn, start, parent, serving, handling, exited, panicked, killed
  exitCode,   \* exitCode[p]: exit status, -1 while there is none
  cred,       \* cred[p]: [uid, gid] of process p
  syscalls,   \* syscalls[p]: identity system calls made by p, in order
  served,     \* served[p]: requests served by p, with the identity in effect
  panicMsg,   \* panicMsg[p]: value of p's panic, "" if none
  stdin,      \* stdin[p]: pipe carrying requests to p
  stdout,     \* stdout[p]: pipe carrying responses from p
  nchildren,  \* number of exec.Command values created so far
  owner,      \* owner[c]: the caller whose UidGid invocation created child c
  upc,        \* upc[h]: position of caller h inside User/UidGid/Call
  cur,        \* cur[h]: locals of h's UidGid invocation
  call,       \* call[h]: h's client.Call in flight: [child, op]
  ret,        \* ret[h]: what the last library call returned to h
  handles,    \* clients returned by UidGid
  client,     \* client[c]: none, open, shutdown, closed
  target,     \* target[c]: the credential UidGid asked child c to take
  ncalls,     \* calls issued on handles so far
  next,       \* messages the outside world wrote on the host's stdin so far
  program,    \* the registrations the binary's main makes
  adapter     \* a splitReadWrite value on its own: streams, Close calls, result

vars ==
  <<env, ctx, registry, doneInit, pc, exitCode, cred, syscalls, served, panicMsg,
    stdin, stdout, nchildren, owner, upc, cur, call, ret, handles, client, target,
    ncalls, next, program, adapter>>

\* What a process is started with.
imageVars == <<env, ctx, registry>>

procVars == <<env, ctx, registry, doneInit, pc, exitCode, cred, syscalls, served, panicMsg>>

\* What no step of the program changes.
fixedVars == <<program, adapter>>

\* The process a caller (a thread of control) runs in.
Proc(h) == IF h = SecondThread THEN Host ELSE h

NoCur ==
  [Uid |-> 0, Gid |-> 0, binary |-> "", absErr |-> FALSE, child |-> NoHandle,
   active |-> FALSE]

NoCall == [child |-> NoHandle, op |-> ""]

NoRet ==
  [fn |-> "", op |-> "", handle |-> NoHandle, child |-> NoHandle, err |-> NoErr,
   who |-> ZeroWho]

\* Identities a host process is started with: root, or an ordinary user.
HostCreds == {[uid |-> 0, gid |-> 0], [uid |-> 1, gid |-> 1]}

RootCred == {[uid |-> 0, gid |-> 0]}

\* A splitReadWrite value nobody has called Close on.
NewAdapter(reader, writer) ==
  [reader |-> reader, writer |-> writer, order |-> <<>>, err |-> "", calls |-> 0]

\* The adapter MaybeRunChildServer builds: os.Stdin and os.Stdout.
StdAdapter == NewAdapter(Stream(TRUE, FALSE, FALSE), Stream(TRUE, FALSE, FALSE))

\* Streams an adapter can hold: without Close, or with a Close that succeeds
\* or fails, on a stream that is open or already closed.
Streams ==
  {Stream(FALSE, FALSE, FALSE)}
    \cup {Stream(TRUE, f, c) : f \in BOOLEAN, c \in BOOLEAN}

\* The state in which the operator starts the binary: with these values of
\* the marker, identities, surroundings, registrations and adapters.
InitFrom(markers, creds, ctxs, mains, adapters) ==
  /\ env \in {[p \in Procs |-> IF p = Host THEN e ELSE ""] : e \in markers}
  /\ ctx \in {[p \in Procs |-> IF p = Host THEN x ELSE [others |-> {}, dir |-> ""]] :
                x \in ctxs}
  /\ program \in mains
  /\ registry = [p \in Procs |-> IF p = Host THEN ServerOf(program)
                                             ELSE [services |-> EmptyRegistry, errs |-> <<>>]]
  /\ doneInit = [p \in Procs |-> FALSE]
  /\ pc = [p \in Procs |-> IF p = Host THEN "start" ELSE "unborn"]
  /\ exitCode = [p \in Procs |-> -1]
  /\ cred \in {[p \in Procs |-> hc] : hc \in creds}
  /\ syscalls = [p \in Procs |-> <<>>]
  /\ served = [p \in Procs |-> <<>>]
  /\ panicMsg = [p \in Procs |-> ""]
  /\ stdin = [p \in Procs |-> IF p = Host THEN NewPipe ELSE NoPipe]
  /\ stdout = [p \in Procs |-> IF p = Host THEN NewPipe ELSE NoPipe]
  /\ nchildren = 0
  /\ owner = [c \in Procs |-> Host]
  /\ upc = [h \in Callers |-> "idle"]
  /\ cur = [h \in Callers |-> NoCur]
  /\ call = [h \in Callers |-> NoCall]
  /\ ret = [h \in Callers |-> NoRet]
  /\ handles = {}
  /\ client = [c \in Children |-> "none"]
  /\ target = [c \in Children |-> [uid |-> 0, gid |-> 0]]
  /\ ncalls = 0
  /\ next = 0
  /\ adapter \in adapters

Init == InitFrom(EnvValues, HostCreds, {DefaultCtx}, {ExampleMain}, {StdAdapter})

callerVars == <<upc, cur, call, ret>>

clientVars == <<handles, client, target>>

\* ------------------------------------------------------------ process steps
\* The ends of its pipes a terminating process p held are closed by the kernel:
\* its own stdin's read end and stdout's write end, and its end of every pipe
\* it created for a child.
CloseEnds(pipes, p, readEnd) ==
  [q \in Procs |->
     IF ~pipes[q].made THEN pipes[q]
     ELSE IF q = p
       THEN IF readEnd THEN [pipes[q] EXCEPT !.rclosed = TRUE]
                       ELSE [pipes[q] EXCEPT !.wclosed = TRUE]
     ELSE IF Proc(owner[q]) = p
       THEN IF readEnd THEN [pipes[q] EXCEPT !.wclosed = TRUE]
                       ELSE [pipes[q] EXCEPT !.rclosed = TRUE]
     ELSE pipes[q]]

\* panic(v) in caller h: its process dies with exit status 2.
Panic(h, msg) ==
  /\ pc' = [pc EXCEPT ![Proc(h)] = "panicked"]
  /\ exitCode' = [exitCode EXCEPT ![Proc(h)] = 2]
  /\ panicMsg' = [panicMsg EXCEPT ![Proc(h)] = msg]
  /\ stdin' = CloseEnds(stdin, Proc(h), TRUE)
  /\ stdout' = CloseEnds(stdout, Proc(h), FALSE)

\* MaybeRunChildServer, up to the point where it returns or starts serving.
MaybeRunChildServer(p) ==
  /\ pc[p] \in {"start", "parent"}
  /\ p = Host => \A h \in Callers : Proc(h) = Host => upc[h] = "idle"
  /\ doneInit' = [doneInit EXCEPT ![p] = TRUE]
  /\ pc' = [pc EXCEPT ![p] = IF IsChildEnv(env[p]) THEN "serving" ELSE "parent"]
  /\ UNCHANGED <<imageVars, exitCode, cred, syscalls, served, panicMsg, stdin, stdout,
                 nchildren, owner, callerVars, clientVars, ncalls, next, fixedVars>>

\* The receiver Server in process p dispatches operation op to ("" if none).
Receiver(p, op) ==
  IF ServiceOf(op) \in ServiceNames THEN registry[p].services[ServiceOf(op)] ELSE ""

\* One turn of Server.ServeConn in process p: read a request, dispatch it,
\* run the handler, write the response.
Serve(p) ==
  /\ pc[p] = "serving"
  /\ stdin[p].buf # <<>>
  /\ LET req == Head(stdin[p].buf)
         rcvr == Receiver(p, req.op)
         d == DropPrivileges(cred[p], req)
         resp == CASE rcvr = "internalService" ->
                        Response(req.op, d.err, IF d.err = "" THEN d.res ELSE ZeroRes, ZeroWho)
                   [] rcvr = "DemoService" -> Response(req.op, "", ZeroRes, WhoAmI(cred[p]))
                   [] rcvr = "Impostor" -> Response(req.op, "", ImpostorRes, ZeroWho)
                   [] OTHER -> Response(req.op, CantFindMsg, ZeroRes, ZeroWho)
     IN /\ KeepReading(req.op)
        /\ rcvr # "SpawnService"
        /\ stdin' = [stdin EXCEPT ![p].buf = Tail(@)]
        /\ served' = [served EXCEPT ![p] =
                        Append(@, [op |-> req.op, uid |-> cred[p].uid, gid |-> cred[p].gid])]
        /\ cred' = [cred EXCEPT ![p] = IF rcvr = "internalService" THEN d.cred ELSE @]
        /\ syscalls' = [syscalls EXCEPT ![p] =
                          IF rcvr = "internalService" THEN @ \o d.calls ELSE @]
        /\ stdout' = [stdout EXCEPT ![p].buf = IF stdout[p].rclosed THEN @ ELSE Append(@, resp)]
  /\ UNCHANGED <<imageVars, doneInit, pc, exitCode, panicMsg, nchildren, owner,
                 callerVars, clientVars, ncalls, next, fixedVars>>

\* ServeConn returns (end of the input stream, or a request that cannot be
\* decoded), closing the codec, and MaybeRunChildServer goes on to os.Exit(0).
ServeEnd(p) ==
  /\ pc[p] = "serving"
  /\ \/ stdin[p].buf = <<>> /\ stdin[p].wclosed
     \/ stdin[p].buf # <<>> /\ ~KeepReading(Head(stdin[p].buf).op)
  /\ pc' = [pc EXCEPT ![p] = AfterServe.pc]
  /\ exitCode' = [exitCode EXCEPT ![p] = AfterServe.code]
  /\ stdin' = CloseEnds(stdin, p, TRUE)
  /\ stdout' = CloseEnds(stdout, p, FALSE)
  /\ UNCHANGED <<imageVars, doneInit, cred, syscalls, served, panicMsg, nchildren, owner,
                 callerVars, clientVars, ncalls, next, fixedVars>>

\* A child is terminated from outside (a signal) or crashes.
Kill(c) ==
  /\ c \in Children
  /\ pc[c] \in {"start", "serving", "handling"}
  /\ pc' = [pc EXCEPT ![c] = "killed"]
  /\ stdin' = CloseEnds(stdin, c, TRUE)
  /\ stdout' = CloseEnds(stdout, c, FALSE)
  /\ UNCHANGED <<imageVars, doneInit, exitCode, cred, syscalls, served, panicMsg,
                 nchildren, owner, callerVars, clientVars, ncalls, next, fixedVars>>

\* Whoever started the host writes a message on the host's standard input.
ExtMessages ==
  {Request(GarbageOp, 0, 0), Request(WhoAmIOp, 0, 0), Request(UnknownOp, 0, 0)}
    \cup {Request(DropOp, u, g) : u \in Ids, g \in Ids}

ExtWrite(m) ==
  /\ pc[Host] = "serving"
  /\ ~stdin[Host].wclosed /\ ~stdin[Host].rclosed
  /\ next < MaxExt
  /\ next' = next + 1
  /\ stdin' = [stdin EXCEPT ![Host].buf = Append(@, m)]
  /\ UNCHANGED <<procVars, stdout, nchildren, owner, callerVars, clientVars, ncalls,
                 fixedVars>>

\* ... or closes it.
ExtClose ==
  /\ pc[Host] = "serving"
  /\ ~stdin[Host].wclosed
  /\ stdin' = [stdin EXCEPT ![Host].wclosed = TRUE]
  /\ UNCHANGED <<procVars, stdout, nchildren, owner, callerVars, clientVars, ncalls,
                 next, fixedVars>>

\* -------------------------------------------------------- the library calls
\* Caller h is running code after MaybeRunChildServer (the host's threads), or
\* a handler inside the serve loop (a child).
Running(h) == IF Proc(h) = Host THEN pc[Host] = "parent" ELSE pc[h] = "handling"

\* Entry of UidGid(uid, gid) in caller h: the doneInit test.
Enter(h, u, g) ==
  /\ cur' = [cur EXCEPT ![h] = [NoCur EXCEPT !.Uid = u, !.Gid = g, !.active = TRUE]]
  /\ ret' = [ret EXCEPT ![h] = NoRet]
  /\ IF InitGuardPanics(doneInit[Proc(h)])
       THEN /\ Panic(h, NeverCalledMsg)
            /\ UNCHANGED upc
       ELSE /\ upc' = [upc EXCEPT ![h] = "abs"]
            /\ UNCHANGED <<pc, exitCode, panicMsg, stdin, stdout>>
  /\ UNCHANGED <<imageVars, doneInit, cred, syscalls, served, nchildren, owner, call,
                 clientVars, ncalls, next, fixedVars>>

\* A host thread may call into the library: the main thread from the start of
\* main, another thread once main is past MaybeRunChildServer.
MayCall(h) ==
  /\ Proc(h) = Host
  /\ IF h = Host THEN pc[Host] \in {"start", "parent"} ELSE pc[Host] = "parent"
  /\ upc[h] = "idle"

\* UidGid invocations that have not yet created their exec.Command value.
Entered == Cardinality({h \in Callers : upc[h] = "abs"})

\* UidGid(uid, gid) called by host thread h; max bounds the children started.
UidGid(h, u, g, max) ==
  /\ MayCall(h)
  /\ nchildren + Entered < max
  /\ Enter(h, u, g)

\* User(username): the lookup, then UidGid.
User(h, username, max) ==
  /\ MayCall(h)
  /\ nchildren + Entered < max
  /\ LET u == Lookup(username)
     IN IF ~u.found
          THEN /\ ret' = [ret EXCEPT ![h] =
                            [NoRet EXCEPT !.fn = "User", !.err = [NoErr EXCEPT !.msg = LookupMsg]]]
               /\ UNCHANGED <<procVars, stdin, stdout, nchildren, owner, upc, cur, call,
                              clientVars, ncalls, next, fixedVars>>
          ELSE Enter(h, u.Uid, u.Gid)

\* Mutant: every invocation uses one and the same exec.Command value.
SharedChild == Host + 1

\* cmd := exec.Command(binary): each invocation makes a value of its own,
\* hence a process and a pair of pipes of its own.
NewChild == nchildren + 1

\* binary, _ := filepath.Abs(os.Args[0]): on failure the path is "" and the
\* error is dropped; cmd := exec.Command(binary).
Abs(h) ==
  /\ Running(h) /\ upc[h] = "abs"
  /\ \E ok \in BOOLEAN :
       cur' = [cur EXCEPT ![h] = [@ EXCEPT !.binary = IF ok THEN "/path/to/binary" ELSE "",
                                           !.absErr = ~ok,
                                           !.child = NewChild]]
  /\ nchildren' = nchildren + 1
  /\ owner' = [owner EXCEPT ![NewChild] = h]
  /\ upc' = [upc EXCEPT ![h] = "stdoutPipe"]
  /\ UNCHANGED <<procVars, stdin, stdout, call, ret, clientVars, ncalls, next, fixedVars>>

\* cmd.StdoutPipe()
StdoutPipe(h) ==
  /\ Running(h) /\ upc[h] = "stdoutPipe"
  /\ \E ok \in BOOLEAN :
       IF ok
         THEN /\ stdout' = [stdout EXCEPT ![cur[h].child] = NewPipe]
              /\ upc' = [upc EXCEPT ![h] = "stdinPipe"]
              /\ UNCHANGED <<pc, exitCode, panicMsg, stdin>>
         ELSE /\ Panic(h, "StdoutPipe failed")
              /\ UNCHANGED upc
  /\ UNCHANGED <<imageVars, doneInit, cred, syscalls, served, nchildren, owner, cur, call,
                 ret, clientVars, ncalls, next, fixedVars>>

\* cmd.StdinPipe()
StdinPipe(h) ==
  /\ Running(h) /\ upc[h] = "stdinPipe"
  /\ \E ok \in BOOLEAN :
       IF ok
         THEN /\ stdin' = [stdin EXCEPT ![cur[h].child] = NewPipe]
              /\ upc' = [upc EXCEPT ![h] = "start"]
              /\ UNCHANGED <<pc, exitCode, panicMsg, stdout>>
         ELSE /\ Panic(h, "StdinPipe failed")
              /\ UNCHANGED upc
  /\ UNCHANGED <<imageVars, doneInit, cred, syscalls, served, nchildren, owner, cur, call,
                 ret, clientVars, ncalls, next, fixedVars>>

\* cmd.Start(): the child is the same binary, started with cmd.Dir and
\* cmd.Env and the identity of the process that starts it.  An empty path
\* cannot be started.
Start(h) ==
  /\ Running(h) /\ upc[h] = "start"
  /\ \E ok \in BOOLEAN :
       IF ok /\ cur[h].binary # ""
         THEN /\ pc' = [pc EXCEPT ![cur[h].child] = "start"]
              /\ env' = [env EXCEPT ![cur[h].child] = CmdEnv(ctx[Proc(h)].others).marker]
              /\ ctx' = [ctx EXCEPT ![cur[h].child] =
                           [others |-> CmdEnv(ctx[Proc(h)].others).others,
                            dir |-> CmdDir(ctx[Proc(h)].dir)]]
              /\ registry' = [registry EXCEPT ![cur[h].child] = ServerOf(program)]
              /\ cred' = [cred EXCEPT ![cur[h].child] = cred[Proc(h)]]
              /\ upc' = [upc EXCEPT ![h] = "call"]
              /\ UNCHANGED <<exitCode, panicMsg, stdin, stdout>>
         ELSE /\ Panic(h, "Start failed")
              /\ UNCHANGED <<imageVars, cred, upc>>
  /\ UNCHANGED <<doneInit, syscalls, served, nchildren, owner, cur, call, ret,
                 clientVars, ncalls, next, fixedVars>>

\* The end of UidGid: the test of the drop result and the return.
Finish(h, res, err) ==
  /\ cur' = [cur EXCEPT ![h] = NoCur]
  /\ upc' = [upc EXCEPT ![h] = "idle"]
  /\ IF DropCheckFails(res)
       THEN /\ ret' = [ret EXCEPT ![h] =
                         [NoRet EXCEPT !.fn = "UidGid", !.child = cur[h].child,
                            !.err = [msg |-> DropFailedMsg, Uid |-> cur[h].Uid,
                                     Gid |-> cur[h].Gid, res |-> res]]]
            /\ UNCHANGED handles
       ELSE /\ ret' = [ret EXCEPT ![h] =
                         [NoRet EXCEPT !.fn = "UidGid", !.child = cur[h].child,
                            !.handle = cur[h].child]]
            /\ handles' = handles \cup {cur[h].child}

\* rpc.NewClient over the child's pipes and the sending half of
\* c.Call("InternalGoRunAs.DropPrivileges", &req, &res).  A write on a pipe
\* whose reader is gone fails and the call returns at once.
DropCall(h) ==
  /\ Running(h) /\ upc[h] = "call"
  /\ target' = [target EXCEPT ![cur[h].child] = [uid |-> cur[h].Uid, gid |-> cur[h].Gid]]
  /\ IF stdin[cur[h].child].rclosed
       THEN /\ client' = [client EXCEPT ![cur[h].child] = "shutdown"]
            /\ Finish(h, ZeroRes, TransportMsg)
            /\ UNCHANGED stdin
       ELSE /\ client' = [client EXCEPT ![cur[h].child] = "open"]
            /\ stdin' = [stdin EXCEPT ![cur[h].child].buf =
                           Append(@, Request(DropOp, cur[h].Uid, cur[h].Gid))]
            /\ upc' = [upc EXCEPT ![h] = "dropWait"]
            /\ UNCHANGED <<cur, ret, handles>>
  /\ UNCHANGED <<procVars, stdout, nchildren, owner, call, ncalls, next, fixedVars>>

\* The receiving half of that call: the response, or the end of the stream.
DropReturn(h) ==
  /\ Running(h) /\ upc[h] = "dropWait"
  /\ LET out == stdout[cur[h].child]
     IN \/ /\ out.buf # <<>>
           /\ stdout' = [stdout EXCEPT ![cur[h].child].buf = Tail(@)]
           /\ Finish(h, Head(out.buf).res, Head(out.buf).err)
           /\ UNCHANGED client
        \/ /\ out.buf = <<>> /\ out.wclosed
           /\ client' = [client EXCEPT ![cur[h].child] = "shutdown"]
           /\ Finish(h, ZeroRes, TransportMsg)
           /\ UNCHANGED stdout
  /\ UNCHANGED <<procVars, stdin, nchildren, owner, call, target, ncalls, next, fixedVars>>

\* Operations the host invokes on a client it was handed.
CallOps == {WhoAmIOp, UnknownOp}

\* client.Call(op, ...) by h on a handle it was given, sending half.
Call(h, c, op) ==
  /\ Running(h) /\ upc[h] = "idle"
  /\ c \in handles /\ owner[c] = h
  /\ ncalls < MaxCalls
  /\ ncalls' = ncalls + 1
  /\ IF ClientRefuses(client[c])
       THEN /\ ret' = [ret EXCEPT ![h] =
                         [NoRet EXCEPT !.fn = "Call", !.op = op, !.handle = c,
                            !.err = [NoErr EXCEPT !.msg = ShutdownMsg]]]
            /\ UNCHANGED <<stdin, client, upc, call>>
       ELSE IF stdin[c].rclosed
         THEN /\ ret' = [ret EXCEPT ![h] =
                           [NoRet EXCEPT !.fn = "Call", !.op = op, !.handle = c,
                              !.err = [NoErr EXCEPT !.msg = TransportMsg]]]
              /\ client' = [client EXCEPT ![c] = "shutdown"]
              /\ UNCHANGED <<stdin, upc, call>>
         ELSE /\ stdin' = [stdin EXCEPT ![c].buf = Append(@, Request(op, 0, 0))]
              /\ upc' = [upc EXCEPT ![h] = "callWait"]
              /\ call' = [call EXCEPT ![h] = [child |-> c, op |-> op]]
              /\ ret' = [ret EXCEPT ![h] = NoRet]
              /\ UNCHANGED client
  /\ UNCHANGED <<procVars, stdout, nchildren, owner, cur, handles, target, next, fixedVars>>

\* client.Call, receiving half.
CallReturn(h) ==
  /\ Running(h) /\ upc[h] = "callWait"
  /\ LET c == call[h].child
         out == stdout[c]
     IN \/ /\ out.buf # <<>>
           /\ stdout' = [stdout EXCEPT ![c].buf = Tail(@)]
           /\ ret' = [ret EXCEPT ![h] =
                        [NoRet EXCEPT !.fn = "Call", !.op = call[h].op, !.handle = c,
                           !.err = [NoErr EXCEPT !.msg = Head(out.buf).err],
                           !.who = Head(out.buf).who]]
           /\ UNCHANGED client
        \/ /\ out.buf = <<>> /\ out.wclosed
           /\ client' = [client EXCEPT ![c] = "shutdown"]
           /\ ret' = [ret EXCEPT ![h] =
                        [NoRet EXCEPT !.fn = "Call", !.op = call[h].op, !.handle = c,
                           !.err = [NoErr EXCEPT !.msg = TransportMsg]]]
           /\ UNCHANGED stdout
  /\ upc' = [upc EXCEPT ![h] = "idle"]
  /\ call' = [call EXCEPT ![h] = NoCall]
  /\ UNCHANGED <<procVars, stdin, nchildren, owner, cur, handles, target, ncalls, next,
                 fixedVars>>

\* client.Close(): the client is marked closed and the codec's Close, which is
\* splitReadWrite.Close, runs on the reader (the read end of the child's
\* stdout) and the writer (the write end of the child's stdin).
Close(h, c) ==
  /\ Running(h) /\ upc[h] = "idle"
  /\ c \in handles /\ owner[c] = h
  /\ client[c] # "closed"
  /\ client' = [client EXCEPT ![c] = "closed"]
  /\ LET r == SplitClose(Stream(TRUE, stdout[c].rclosed, stdout[c].rclosed),
                         Stream(TRUE, stdin[c].wclosed, stdin[c].wclosed))
     IN /\ stdout' = [stdout EXCEPT ![c].rclosed = r.reader.closed]
        /\ stdin' = [stdin EXCEPT ![c].wclosed = r.writer.closed]
  /\ ret' = [ret EXCEPT ![h] = [NoRet EXCEPT !.fn = "Close", !.handle = c]]
  /\ UNCHANGED <<procVars, nchildren, owner, upc, cur, call, handles, target, ncalls,
                 next, fixedVars>>

\* ------------------------------------------- a handler that calls UidGid
\* One turn of the serve loop of p for a request whose receiver's handler
\* calls runas.UidGid with the ids of the request: the handler runs up to the
\* doneInit test.
HandlerUidGid(p) ==
  /\ pc[p] = "serving"
  /\ stdin[p].buf # <<>>
  /\ nchildren + Entered < MaxProcs
  /\ upc[p] = "idle"
  /\ LET req == Head(stdin[p].buf)
     IN /\ KeepReading(req.op)
        /\ Receiver(p, req.op) = "SpawnService"
        /\ served' = [served EXCEPT ![p] =
                        Append(@, [op |-> req.op, uid |-> cred[p].uid, gid |-> cred[p].gid])]
        /\ cur' = [cur EXCEPT ![p] =
                     [NoCur EXCEPT !.Uid = req.Uid, !.Gid = req.Gid, !.active = TRUE]]
        /\ ret' = [ret EXCEPT ![p] = NoRet]
        /\ IF InitGuardPanics(doneInit[p])
             THEN /\ pc' = [pc EXCEPT ![p] = "panicked"]
                  /\ exitCode' = [exitCode EXCEPT ![p] = 2]
                  /\ panicMsg' = [panicMsg EXCEPT ![p] = NeverCalledMsg]
                  /\ stdin' = CloseEnds([stdin EXCEPT ![p].buf = Tail(@)], p, TRUE)
                  /\ stdout' = CloseEnds(stdout, p, FALSE)
                  /\ UNCHANGED upc
             ELSE /\ pc' = [pc EXCEPT ![p] = "handling"]
                  /\ upc' = [upc EXCEPT ![p] = "abs"]
                  /\ stdin' = [stdin EXCEPT ![p].buf = Tail(@)]
                  /\ UNCHANGED <<exitCode, panicMsg, stdout>>
  /\ UNCHANGED <<imageVars, doneInit, cred, syscalls, nchildren, owner, call, clientVars,
                 ncalls, next, fixedVars>>

\* That handler returns what UidGid returned; the serve loop writes the
\* response and reads on.
HandlerReturn(p) ==
  /\ pc[p] = "handling"
  /\ upc[p] = "idle"
  /\ pc' = [pc EXCEPT ![p] = "serving"]
  /\ stdout' = [stdout EXCEPT ![p].buf =
                  IF stdout[p].rclosed THEN @
                  ELSE Append(@, Response(SpawnOp, ret[p].err.msg, ZeroRes, ZeroWho))]
  /\ UNCHANGED <<imageVars, doneInit, exitCode, cred, syscalls, served, panicMsg, stdin,
                 nchildren, owner, callerVars, clientVars, ncalls, next, fixedVars>>

\* ------------------------------------------------ the adapter on its own
\* s.Close() on a splitReadWrite value.
AdapterClose ==
  /\ adapter.calls < MaxCloses
  /\ LET r == SplitClose(adapter.reader, adapter.writer)
     IN adapter' = [reader |-> r.reader, writer |-> r.writer, order |-> r.order,
                    err |-> r.err, calls |-> adapter.calls + 1]
  /\ UNCHANGED <<procVars, stdin, stdout, nchildren, owner, callerVars, clientVars,
                 ncalls, next, program>>

\* ------------------------------------------------------------ specifications
\* The example program: one host thread.
Next ==
  \/ \E p \in Procs : MaybeRunChildServer(p)
  \/ \E p \in Procs : Serve(p)
  \/ \E p \in Procs : ServeEnd(p)
  \/ \E c \in Children : Kill(c)
  \/ \E m \in ExtMessages : ExtWrite(m)
  \/ ExtClose
  \/ \E u \in Ids, g \in Ids : UidGid(Host, u, g, MaxChildren)
  \/ \E n \in UserNames : User(Host, n, MaxChildren)
  \/ Abs(Host)
  \/ StdoutPipe(Host)
  \/ StdinPipe(Host)
  \/ Start(Host)
  \/ DropCall(Host)
  \/ DropReturn(Host)
  \/ \E c \in Children, op \in CallOps : Call(Host, c, op)
  \/ CallReturn(Host)
  \/ \E c \in Children : Close(Host, c)

Spec == Init /\ [][Next]_vars

\* A child is a process of its own: the operating system keeps running it.
ChildrenRun ==
  \A c \in Children :
    /\ WF_vars(MaybeRunChildServer(c))
    /\ WF_vars(Serve(c))
    /\ WF_vars(ServeEnd(c))

\* A host started as root that asks for children with uid = gid, calls them
\* and closes them, its children being scheduled fairly.
InitFair == InitFrom({""}, RootCred, {DefaultCtx}, {ExampleMain}, {StdAdapter})

NextFair ==
  \/ \E p \in Procs : MaybeRunChildServer(p)
  \/ \E p \in Procs : Serve(p)
  \/ \E p \in Procs : ServeEnd(p)
  \/ \E c \in Children : Kill(c)
  \/ \E u \in Ids : UidGid(Host, u, u, MaxChildren)
  \/ Abs(Host)
  \/ StdoutPipe(Host)
  \/ StdinPipe(Host)
  \/ Start(Host)
  \/ DropCall(Host)
  \/ DropReturn(Host)
  \/ \E c \in Children, op \in CallOps : Call(Host, c, op)
  \/ CallReturn(Host)
  \/ \E c \in Children : Close(Host, c)

FairSpec == InitFair /\ [][NextFair]_vars /\ ChildrenRun

\* The host started as root in different surroundings, by a binary whose main
\* may also try to register a service under the built-in name.
InitEnv == InitFrom({"", "1"}, RootCred, OperatorCtxs, {ExampleMain, CollidingMain}, {StdAdapter})

SpecEnv == InitEnv /\ [][Next]_vars

\* splitReadWrite.Close applied to every kind of reader and writer.
InitClose ==
  InitFrom({""}, RootCred, {DefaultCtx}, {ExampleMain},
           {NewAdapter(r, w) : r \in Streams, w \in Streams})

NextClose == AdapterClose

SpecClose == InitClose /\ [][NextClose]_vars

\* The threads of the host that call into the library.
HostThreads == {Host, SecondThread}

\* A host, started as root, whose two threads call into the library
\* concurrently, each asking for a child of its own with uid = gid.
InitThreads == InitFrom({""}, RootCred, {DefaultCtx}, {ExampleMain}, {StdAdapter})

NextThreads ==
  \/ \E p \in Procs : MaybeRunChildServer(p)
  \/ \E p \in Procs : Serve(p)
  \/ \E p \in Procs : ServeEnd(p)
  \/ \E c \in Children : Kill(c)
  \/ \E h \in HostThreads, u \in Ids : UidGid(h, u, u, Cardinality(HostThreads))
  \/ \E h \in HostThreads : Abs(h)
  \/ \E h \in HostThreads : StdoutPipe(h)
  \/ \E h \in HostThreads : StdinPipe(h)
  \/ \E h \in HostThreads : Start(h)
  \/ \E h \in HostThreads : DropCall(h)
  \/ \E h \in HostThreads : DropReturn(h)
  \/ \E h \in HostThreads, c \in Children, op \in CallOps : Call(h, c, op)
  \/ \E h \in HostThreads : CallReturn(h)
  \/ \E h \in HostThreads, c \in Children : Close(h, c)

SpecThreads == InitThreads /\ [][NextThreads]_vars

\* A binary that exports a service whose handler calls runas.UidGid: what the
\* outside world may write to a host started as a child, and what the host
\* calls on its handles.
HandlerMessages == ExtMessages \cup {Request(SpawnOp, u, u) : u \in Ids}

HandlerCallOps == {WhoAmIOp, SpawnOp}

InitHandlers == InitFrom({"", "1"}, RootCred, {DefaultCtx}, {SpawnMain}, {StdAdapter})

NextHandlers ==
  \/ \E p \in Procs : MaybeRunChildServer(p)
  \/ \E p \in Procs : Serve(p)
  \/ \E p \in Procs : HandlerUidGid(p)
  \/ \E p \in Procs : HandlerReturn(p)
  \/ \E p \in Procs : ServeEnd(p)
  \/ \E c \in Children : Kill(c)
  \/ \E m \in HandlerMessages : ExtWrite(m)
  \/ ExtClose
  \/ \E u \in Ids : UidGid(Host, u, u, MaxChildren)
  \/ \E p \in Procs : Abs(p)
  \/ \E p \in Procs : StdoutPipe(p)
  \/ \E p \in Procs : StdinPipe(p)
  \/ \E p \in Procs : Start(p)
  \/ \E p \in Procs : DropCall(p)
  \/ \E p \in Procs : DropReturn(p)
  \/ \E c \in Children, op \in HandlerCallOps : Call(Host, c, op)
  \/ CallReturn(Host)
  \/ \E c \in Children : Close(Host, c)

SpecHandlers == InitHandlers /\ [][NextHandlers]_vars

\* ------------------------------------------------------------------ claims
\* Both identity system calls of process c succeeded.
BothDropped(c) ==
  /\ Len(syscalls[c]) = 2
  /\ syscalls[c][1].errno = 0
  /\ syscalls[c][2].errno = 0

\* C1: UidGid hands out a client only when the drop call reported GidDropped
\* and UidDropped both true; in every other outcome it returns the nil client
\* with a non-nil error.  So every client the host holds talks to a child
\* whose two identity changes succeeded and which has the requested identity.
C1_HandleOnlyAfterDrop ==
  /\ ret[Host].fn = "UidGid" =>
       IF ret[Host].handle # NoHandle
         THEN ret[Host].err = NoErr /\ ret[Host].handle \in handles
         ELSE ret[Host].err.msg # ""
  /\ \A c \in Children :
       /\ c \in handles =>
            /\ BothDropped(c)
            /\ cred[c] = target[c]
       /\ (\E i \in 1..Len(syscalls[c]) : syscalls[c][i].errno # 0) => c \notin handles
  /\ ret[Host].fn = "UidGid" /\ ret[Host].err.msg # "" =>
       /\ ret[Host].handle = NoHandle
       /\ nchildren \notin handles

C1_Witness ==
  /\ ret[Host].fn = "UidGid"
  /\ ret[Host].handle # NoHandle
  /\ cred[ret[Host].handle] # cred[Host]

\* C2: in every child the drop call is the first request served, it has been
\* served before the client is handed to the host, and every other operation
\* the child serves runs under the identity UidGid asked for.
C2_DropServedFirst ==
  \A c \in Children :
    /\ served[c] # <<>> => served[c][1].op = DropOp
    /\ c \in handles => Len(served[c]) >= 1 /\ Len(syscalls[c]) = 2
    /\ \A i \in 2..Len(served[c]) :
         /\ served[c][i].op # DropOp
         /\ served[c][i].uid = target[c].uid
         /\ served[c][i].gid = target[c].gid

C2_Witness ==
  \E c \in handles :
    /\ Len(served[c]) >= 2
    /\ served[c][2].op = WhoAmIOp
    /\ target[c] # cred[Host]

\* C3: in every process the identity system calls alternate, group change
\* first: the calls at odd positions are setgid, those at even positions
\* setuid, so no setuid precedes the setgid of its DropPrivileges execution.
C3_GroupBeforeUser ==
  \A p \in Procs :
    \A i \in 1..Len(syscalls[p]) :
      syscalls[p][i].call = IF i % 2 = 1 THEN "setgid" ELSE "setuid"

C3_Witness ==
  \E c \in Children :
    /\ Len(syscalls[c]) = 2
    /\ syscalls[c][1].call = "setgid" /\ syscalls[c][1].errno = 0
    /\ syscalls[c][2].call = "setuid" /\ syscalls[c][2].errno = 0
    /\ cred[c] # cred[Host]

\* C4: the user change is attempted whether or not the group change
\* succeeded, and the result reports each outcome on its own: every drop
\* response of a child carries GidDropped/SetgidErrno of its setgid call and
\* UidDropped/SetuidErrno of its setuid call.
C4_IndependentOutcomes ==
  \A c \in Children :
    /\ Len(syscalls[c]) \in {0, 2}
    /\ \A i \in 1..Len(stdout[c].buf) :
         LET r == stdout[c].buf[i]
         IN r.op = DropOp =>
              /\ Len(syscalls[c]) = 2
              /\ syscalls[c][2].call = "setuid"
              /\ r.res.GidDropped = (syscalls[c][1].errno = 0)
              /\ r.res.UidDropped = (syscalls[c][2].errno = 0)
              /\ r.res.SetgidErrno = syscalls[c][1].errno
              /\ r.res.SetuidErrno = syscalls[c][2].errno

\* gid changed but uid not
C4_Witness ==
  \E c \in Children :
    /\ stdout[c].buf # <<>>
    /\ Head(stdout[c].buf).op = DropOp
    /\ Head(stdout[c].buf).res.GidDropped
    /\ ~Head(stdout[c].buf).res.UidDropped

\* The other three combinations of (GidDropped, UidDropped).
C4_ReportedCombination(g, u) ==
  \E c \in Children :
    /\ stdout[c].buf # <<>>
    /\ Head(stdout[c].buf).op = DropOp
    /\ Head(stdout[c].buf).res.GidDropped = g
    /\ Head(stdout[c].buf).res.UidDropped = u

C4_NotBothFalse == ~C4_ReportedCombination(FALSE, FALSE)

C4_NotGidOnlyFalse == ~C4_ReportedCombination(FALSE, TRUE)

C4_NotBothTrue == ~C4_ReportedCombination(TRUE, TRUE)

\* C5: as long as MaybeRunChildServer has not been called in the host, a call
\* of UidGid (directly or through User) has ended in the precondition panic,
\* and no pipe was created and no child started.
C5_PanicBeforeInit ==
  ~doneInit[Host] =>
    /\ nchildren = 0
    /\ \A c \in Children : ~stdin[c].made /\ ~stdout[c].made /\ pc[c] = "unborn"
    /\ cur[Host].active => pc[Host] = "panicked" /\ panicMsg[Host] = NeverCalledMsg
    /\ handles = {}

C5_Witness ==
  /\ ~doneInit[Host]
  /\ cur[Host].active /\ cur[Host].Uid = 1 /\ cur[Host].Gid = 1
  /\ panicMsg[Host] = NeverCalledMsg

\* C6: a process that called MaybeRunChildServer serves exactly if its marker
\* variable is "1"; otherwise it is initialized, went on as the parent without
\* serving and without exiting, and a further call in the parent would leave
\* doneInit and the role as they are.
C6_RoleFromMarker ==
  \A p \in Procs :
    /\ pc[p] \in {"serving", "exited"} => env[p] = "1"
    /\ pc[p] = "parent" => doneInit[p] /\ env[p] # "1"
    /\ doneInit[p] /\ env[p] = "1" => pc[p] \in {"serving", "exited", "killed"}
    /\ doneInit[p] /\ env[p] # "1" =>
         /\ pc[p] \in {"parent", "panicked"}
         /\ served[p] = <<>>
         /\ exitCode[p] # 0
    /\ pc[p] = "parent" =>
         /\ IsChildEnv(env[p]) = FALSE
         /\ [doneInit EXCEPT ![p] = TRUE] = doneInit

C6_Witness ==
  /\ pc[Host] = "parent"
  /\ env[Host] = "0"
  /\ doneInit[Host]
  /\ nchildren = 1

\* C7: a process started with the marker set never comes back from
\* MaybeRunChildServer: once it called it, it serves, and it ends only by
\* exiting with status 0 after its input ended or could not be decoded (or by
\* being killed); it runs none of the code after the call.
C7_ChildNeverReturns ==
  \A p \in Procs :
    env[p] = "1" =>
      /\ pc[p] # "parent"
      /\ doneInit[p] => pc[p] \in {"serving", "exited", "killed"}
      /\ pc[p] = "exited" =>
           /\ exitCode[p] = 0
           /\ \/ stdin[p].buf = <<>> /\ stdin[p].wclosed
              \/ stdin[p].buf # <<>> /\ Head(stdin[p].buf).op = GarbageOp
      /\ pc[p] \in {"start", "serving", "killed"} => exitCode[p] = -1
      /\ p = Host /\ doneInit[p] => upc[Host] = "idle" /\ nchildren = 0 /\ ~cur[Host].active

C7_Witness ==
  \E c \in Children :
    /\ pc[c] = "exited"
    /\ exitCode[c] = 0
    /\ Len(served[c]) >= 2

\* C8: when both identity changes succeeded in the child, UidGid returns the
\* client, and a WhoAmI answered through a client reports exactly the uid and
\* the gid that UidGid was given.
C8_WhoAmIReportsTarget ==
  /\ ret[Host].fn = "UidGid" /\ nchildren \in Children /\ BothDropped(nchildren) =>
       ret[Host].handle = nchildren
  /\ ret[Host].fn = "Call" /\ ret[Host].op = WhoAmIOp /\ ret[Host].err.msg = "" =>
       ret[Host].who = [Uid |-> target[ret[Host].handle].uid, Gid |-> target[ret[Host].handle].gid]

C8_Witness ==
  /\ ret[Host].fn = "Call" /\ ret[Host].op = WhoAmIOp /\ ret[Host].err.msg = ""
  /\ ret[Host].who = [Uid |-> 1, Gid |-> 0]
  /\ cred[Host] = [uid |-> 0, gid |-> 0]

\* C9: the error UidGid returns after a transport failure of the drop call
\* (the client was shut down before any result arrived) is not the error it
\* returns for a refused identity change.
C9_TransportErrorDistinct ==
  ret[Host].fn = "UidGid" /\ nchildren \in Children /\ client[nchildren] = "shutdown" =>
    ret[Host].err.msg # DropFailedMsg

\* C10: each setup failure inside UidGid makes the call panic there and then:
\* after a failed step the call goes no further.
C10_SetupFailuresPanic ==
  /\ cur[Host].absErr => pc[Host] = "panicked"
  /\ panicMsg[Host] \in {"StdoutPipe failed", "StdinPipe failed", "Start failed"} =>
       pc[Host] = "panicked" /\ ret[Host] = NoRet

\* C11: every child that was started has the marker variable set to "1" as
\* its whole environment and "/" as its working directory, whatever the
\* environment and the working directory of the process that started it: the
\* child's surroundings are the same constant for every parent, so two
\* parents that differ only in these start identical children.
C11_ChildSurroundingsFixed ==
  \A c \in Children :
    pc[c] # "unborn" =>
      /\ env[c] = "1"
      /\ ctx[c].others = {}
      /\ ctx[c].dir = "/"

C11_Witness ==
  \E c \in Children :
    /\ pc[c] = "serving"
    /\ ctx[Proc(owner[c])].others # {}
    /\ ctx[Proc(owner[c])].dir = "/home/op"
    /\ env[Proc(owner[c])] = ""

\* C12: a call of an operation that is not registered comes back with the
\* "can't find service" error, and the child that answered it neither
\* crashed nor left its serve loop: a child exits only after its channel was
\* closed by the host (or the host died), and every call on a handle, before
\* or after an unregistered one, fails only when the child was killed or the
\* client is no longer open; otherwise WhoAmI is served.
C12_UnknownOpAnswered ==
  /\ \A c \in Children :
       /\ pc[c] # "panicked"
       /\ pc[c] = "exited" =>
            /\ stdin[c].buf = <<>> /\ stdin[c].wclosed
            /\ client[c] = "closed" \/ pc[Proc(owner[c])] = "panicked"
  /\ ret[Host].fn = "Call" =>
       /\ ret[Host].err.msg = TransportMsg => pc[ret[Host].handle] = "killed"
       /\ ret[Host].err.msg = ShutdownMsg => client[ret[Host].handle] # "open"
       /\ ret[Host].err.msg \notin {TransportMsg, ShutdownMsg} =>
            /\ ret[Host].op = UnknownOp => ret[Host].err.msg = CantFindMsg
            /\ ret[Host].op = WhoAmIOp => ret[Host].err.msg = ""

\* a WhoAmI answered by a child that answered an unregistered operation before
C12_Witness ==
  /\ ret[Host].fn = "Call" /\ ret[Host].op = WhoAmIOp /\ ret[Host].err.msg = ""
  /\ Len(served[ret[Host].handle]) = 3
  /\ served[ret[Host].handle][2].op = UnknownOp
  /\ served[ret[Host].handle][3].op = WhoAmIOp
  /\ pc[ret[Host].handle] = "serving"

\* C13: once the host has closed the client of a handle, closing both pipe
\* ends it holds, every later call on that handle has returned the shutdown /
\* transport error: none is waiting for a response, none succeeded.
C13_CallAfterCloseFails ==
  /\ \A c \in Children :
       client[c] = "closed" => stdin[c].wclosed /\ stdout[c].rclosed
  /\ upc[Host] = "callWait" => client[call[Host].child] # "closed"
  /\ ret[Host].fn = "Call" /\ client[ret[Host].handle] = "closed" =>
       /\ ret[Host].err.msg \in {ShutdownMsg, TransportMsg}
       /\ ret[Host].who = ZeroWho

\* a call refused while the child has not yet seen the end of its input
C13_Witness ==
  /\ ret[Host].fn = "Call" /\ ret[Host].op = WhoAmIOp
  /\ client[ret[Host].handle] = "closed"
  /\ ret[Host].err.msg = ShutdownMsg
  /\ pc[ret[Host].handle] = "serving"

\* C14: closing the client of a handle eventually ends its child: the write
\* end of the child's stdin is closed from then on, and the child, if it is
\* not killed first, comes to the end of its input and exits with status 0.
C14_CloseEndsChild ==
  \A c \in Children :
    /\ [](client[c] = "closed" => stdin[c].wclosed)
    /\ (client[c] = "closed") ~> (pc[c] = "killed" \/ (pc[c] = "exited" /\ exitCode[c] = 0))

C14_Witness ==
  \E c \in Children :
    /\ client[c] = "closed"
    /\ pc[c] = "exited" /\ exitCode[c] = 0
    /\ pc[Host] = "parent"
    /\ Len(served[c]) >= 2

\* C15: when UidGid has returned the drop failure to a host that is still
\* running, the child it started has had its input stream closed (so that it
\* comes to the end of its input and exits), unless the child is dead already.
C15_FailedSpawnClosesInput ==
  /\ ret[Host].fn = "UidGid"
  /\ ret[Host].err.msg = DropFailedMsg
  /\ ret[Host].child # NoHandle
  /\ pc[Host] = "parent"
  /\ pc[ret[Host].child] \in {"start", "serving"}
  => stdin[ret[Host].child].wclosed

\* C16: after any number of Close calls on a splitReadWrite value, each call
\* returned nil, called Close on the reader and then on the writer, on each
\* exactly if it exposes Close: a stream without Close was never touched, and
\* a failing reader Close did not keep the writer from being closed.
C16_CloseBothIgnoreErrors ==
  adapter.calls > 0 =>
    /\ adapter.err = "nil"
    /\ adapter.order = (IF adapter.reader.closer THEN <<"Reader">> ELSE <<>>)
                         \o (IF adapter.writer.closer THEN <<"Writer">> ELSE <<>>)
    /\ adapter.reader.attempts = IF adapter.reader.closer THEN adapter.calls ELSE 0
    /\ adapter.writer.attempts = IF adapter.writer.closer THEN adapter.calls ELSE 0
    /\ adapter.reader.closer /\ ~adapter.reader.fails => adapter.reader.closed
    /\ adapter.writer.closer /\ ~adapter.writer.fails => adapter.writer.closed
    /\ ~adapter.reader.closer => ~adapter.reader.closed
    /\ ~adapter.writer.closer => ~adapter.writer.closed

\* the reader's Close failed, the writer was closed all the same
C16_Witness ==
  /\ adapter.calls = 1
  /\ adapter.reader.closer /\ adapter.reader.fails /\ ~adapter.reader.closed
  /\ adapter.writer.closer /\ adapter.writer.closed /\ adapter.writer.attempts = 1
  /\ adapter.order = <<"Reader", "Writer">>
  /\ adapter.err = "nil"

\* Each invocation has its own child, and each call on a handle is answered by
\* that handle's child or fails for a reason of that handle alone.
C17_HandlesStayApart ==
  \A h \in HostThreads :
    /\ \A k \in HostThreads :
         h # k /\ cur[h].child # NoHandle => cur[h].child # cur[k].child
    /\ \A k \in HostThreads :
         h # k /\ ret[h].fn = "UidGid" /\ ret[h].child # NoHandle
           => ret[h].child # ret[k].child /\ ret[h].child # cur[k].child
    /\ cur[h].child # NoHandle => owner[cur[h].child] = h
    /\ upc[h] = "callWait" => owner[call[h].child] = h
    /\ ret[h].fn = "Call" =>
         /\ owner[ret[h].handle] = h
         /\ ret[h].err.msg = TransportMsg => pc[ret[h].handle] = "killed"
         /\ ret[h].err.msg = ShutdownMsg => client[ret[h].handle] # "open"
         /\ ret[h].err.msg \notin {TransportMsg, ShutdownMsg} =>
              /\ ret[h].op = UnknownOp => ret[h].err.msg = CantFindMsg
              /\ ret[h].op = WhoAmIOp =>
                   /\ ret[h].err.msg = ""
                   /\ ret[h].who = [Uid |-> target[ret[h].handle].uid,
                                    Gid |-> target[ret[h].handle].gid]

\* A step that closes a client or kills a child leaves the other children's
\* pipes, process state, client and identity unchanged.
C17_OthersUntouched ==
  \A c \in Children, d \in Children :
    c # d /\ (client'[c] # client[c] \/ (pc[c] # "killed" /\ pc'[c] = "killed"))
      => UNCHANGED <<stdin[d], stdout[d], pc[d], client[d], cred[d], served[d]>>

\* C17: with two host threads calling into the library in any interleaving,
\* every UidGid invocation has a child and pipes of its own, an answer read
\* through a handle comes from that handle's child (WhoAmI reports the
\* identity asked for that handle), a call on a handle fails only when that
\* handle's own child was killed or its own client is not open, and a step
\* that closes or breaks one handle's channel leaves every other child's
\* pipes, process, client and identity as they were.
C17_IndependentHandles == []C17_HandlesStayApart /\ [][C17_OthersUntouched]_vars

\* the second thread's child was killed and its call failed; the main
\* thread's call on its own handle was answered by its own child
C17_Witness ==
  /\ ret[Host].fn = "Call" /\ ret[Host].op = WhoAmIOp /\ ret[Host].err.msg = ""
  /\ ret[Host].who = [Uid |-> 1, Gid |-> 1]
  /\ ret[SecondThread].fn = "Call" /\ ret[SecondThread].err.msg = TransportMsg
  /\ target[ret[SecondThread].handle] = [uid |-> 0, gid |-> 0]
  /\ pc[ret[SecondThread].handle] = "killed"
  /\ pc[ret[Host].handle] = "serving"

\* C18: in every process, from before its call of MaybeRunChildServer on, the
\* name InternalGoRunAs is bound to the built-in service, registered by the
\* package's initialization ahead of main's registrations; a registration of
\* main under that name was refused with an error and changed nothing, main's
\* other registration took effect, and every drop request a process served
\* was run by the built-in handler (it made the two identity system calls).
C18_BuiltinRegistered ==
  \A p \in Procs :
    pc[p] # "unborn" =>
      /\ registry[p].services["InternalGoRunAs"] = "internalService"
      /\ registry[p].services["DemoService"] = "DemoService"
      /\ Len(registry[p].errs) = Len(program)
      /\ \A i \in 1..Len(program) :
           registry[p].errs[i] =
             IF program[i].name = "InternalGoRunAs" THEN AlreadyDefinedMsg ELSE ""
      /\ Len(syscalls[p]) =
           2 * Cardinality({i \in 1..Len(served[p]) : served[p][i].op = DropOp})

\* a child of a binary whose main tried to take the built-in name dropped to
\* the identity asked for
C18_Witness ==
  \E c \in Children :
    /\ program = CollidingMain
    /\ c \in handles
    /\ registry[c].errs = <<AlreadyDefinedMsg, "">>
    /\ cred[c] = [uid |-> 1, gid |-> 1]
    /\ cred[Host] = [uid |-> 0, gid |-> 0]

\* C19 (as claimed): a process started with the marker set never starts a
\* process: no UidGid call in it gets past the doneInit test.
C19_ChildNeverSpawns ==
  \A p \in Procs :
    env[p] = "1" =>
      /\ upc[p] = "idle"
      /\ \A c \in Children : pc[c] # "unborn" => Proc(owner[c]) # p

\* C19 (amended): a process started with the marker set never starts a
\* process from its main: a UidGid call made before MaybeRunChildServer
\* ended in the precondition panic, the code after MaybeRunChildServer never
\* runs, and a UidGid invocation is in progress in it, or has started a
\* process, only from a handler of the serve loop, where doneInit is already
\* true and the test lets the call through.
C19_ChildSpawnsOnlyFromHandler ==
  \A p \in Procs :
    env[p] = "1" =>
      /\ pc[p] # "parent"
      /\ ~doneInit[p] =>
           /\ upc[p] = "idle"
           /\ cur[p].active => pc[p] = "panicked" /\ panicMsg[p] = NeverCalledMsg
      /\ upc[p] # "idle" =>
           /\ doneInit[p]
           /\ pc[p] \in {"handling", "killed", "panicked"}
           /\ \E i \in 1..Len(served[p]) : served[p][i].op = SpawnOp
      /\ \A c \in Children :
           pc[c] # "unborn" /\ Proc(owner[c]) = p =>
             /\ doneInit[p]
             /\ \E i \in 1..Len(served[p]) : served[p][i].op = SpawnOp

\* a child of the host, while running a handler, has started a process
C19_Witness ==
  \E p \in Children, c \in Children :
    /\ env[p] = "1" /\ env[Host] = ""
    /\ pc[p] = "handling"
    /\ owner[c] = p
    /\ pc[c] = "serving"
    /\ served[c] # <<>>

\* A drop result whose flags agree with its error numbers.
ConsistentResult(res) ==
  /\ res.GidDropped = (res.SetgidErrno = 0)
  /\ res.UidDropped = (res.SetuidErrno = 0)

\* C20: DropPrivileges answers every request, from every identity, with a nil
\* error and a result in which GidDropped is true exactly if SetgidErrno is 0
\* and UidDropped exactly if SetuidErrno is 0; so does every drop response a
\* process has written, and every result UidGid reports in its error after it
\* received one from its child.
C20_ResultConsistent ==
  /\ \A u \in Ids, g \in Ids, tu \in Ids, tg \in Ids :
       LET d == DropPrivileges([uid |-> u, gid |-> g], Request(DropOp, tu, tg))
       IN d.err = "" /\ ConsistentResult(d.res)
  /\ \A p \in Procs :
       \A i \in 1..Len(stdout[p].buf) :
         stdout[p].buf[i].op = DropOp =>
           /\ stdout[p].buf[i].err = ""
           /\ ConsistentResult(stdout[p].buf[i].res)
  /\ \A h \in Callers :
       /\ ret[h].fn = "UidGid" /\ ret[h].err.msg = DropFailedMsg
       /\ ret[h].child # NoHandle /\ client[ret[h].child] = "open"
       => ConsistentResult(ret[h].err.res)

\* both identity changes refused, reported as data in UidGid's error
C20_Witness ==
  /\ ret[Host].fn = "UidGid"
  /\ client[ret[Host].child] = "open"
  /\ ret[Host].err.msg = DropFailedMsg
  /\ ret[Host].err.res =
       [UidDropped |-> FALSE, GidDropped |-> FALSE, SetuidErrno |-> EPERM, SetgidErrno |-> EPERM]

====
